---------------------------- MODULE Spec2Model ----------------------------
(***************************************************************************)
(* A model of chia/util/keychain.py: the mnemonic codec, the seed and key  *)
(* derivation, the Keychain's slot scans over the keyring store, and the   *)
(* unlocks_keyring passphrase gate.                                        *)
(*                                                                         *)
(* Representation.  A str is the sequence of its code points, bytes are a  *)
(* sequence of integers 0..255, a hex string is a sequence of hex digits   *)
(* 0..15 (two per byte), a mnemonic is the sequence of its words (the      *)
(* " ".join / split(" ") pair is not modelled: words hold no space).       *)
(* Python's None is the model value None.  A call that raises yields       *)
(* <<"raise", exception>>, one that returns yields <<"ok", value>>.        *)
(***************************************************************************)
EXTENDS Integers, Sequences, FiniteSets, TLC

VARIABLES
    store,              \* the keyring: (service, user) |-> hex string
    raises,             \* whether the keyring's delete_password raises on an absent entry
    pc,                 \* "idle", "returned", or the position inside delete_all_keys
    ret,                \* the last call: operation, arguments, result
    before,             \* the keyring as it was when the last call began
    index,              \* delete_all_keys: local index
    pkent,              \* delete_all_keys: local pkent
    delete_exception,   \* delete_all_keys: local delete_exception
    master,             \* the keyring's master passphrase (None: not configured)
    cache,              \* the keyring's cached passphrase: [passphrase, validated]
    gate,               \* the unlocks_keyring wrapper in progress
    calls               \* add_private_key calls running side by side, and their writes

vars == <<store, raises, pc, ret, before, index, pkent, delete_exception, master, cache, gate,
          calls>>

\* Python's None: a value that equals no bytes, str, list, tuple or key of the model
None == << <<"None">> >>

(***************************************************************************)
(* Bounds of the model.                                                    *)
(***************************************************************************)
\* The model's value of MAX_KEYS (the source's is 100): the scans and the
\* claims depend on slot indices only through their order relative to it.
ScaledMaxKeys == 2
\* Slots beyond MAX_KEYS that add_private_key may still fill in the model.
SlotsBeyond == 1
\* The entropies of the codec runs are (a * i + b) % 256 at byte i, for the
\* offsets b up to MaxOffset (and 255).
MaxOffset == 5

MAX_KEYS == ScaledMaxKeys
MAX_RETRIES == 3
\* blspy's G1Element.SIZE is 48; the model's serialized public key has 2 bytes.
G1_SIZE == 2

MaxSlot == MAX_KEYS + SlotsBeyond

(***************************************************************************)
(* Sequences, strings, hex                                                 *)
(***************************************************************************)
\* A sequence given by a function on 1..n, as the tuple of its elements
\* (evaluated once, where the function would be evaluated at every use)
Listed(s) == SubSeq(s, 1, Len(s))

\* s[:n] and s[n:]
Take(s, n) == SubSeq(s, 1, n)
Drop(s, n) == SubSeq(s, n + 1, Len(s))

Range(s) == {s[i] : i \in 1..Len(s)}

\* str(index) of an f-string: decimal digits ("0" is code point 48), no leading zeros
RECURSIVE Decimal(_)
Decimal(n) == IF n < 10 THEN <<48 + n>>
              ELSE Decimal(n \div 10) \o <<48 + (n % 10)>>

\* bytes.hex(): two hex digits per byte, high digit first
Hex(bytes) == Listed([k \in 1..2 * Len(bytes) |->
                        IF k % 2 = 1 THEN bytes[(k + 1) \div 2] \div 16
                                     ELSE bytes[k \div 2] % 16])

\* bytes.fromhex()
FromHex(hex) == Listed([k \in 1..Len(hex) \div 2 |-> 16 * hex[2 * k - 1] + hex[2 * k]])

(***************************************************************************)
(* Bits (bitstring.BitArray).  A bit array is held as its units (bytes, or *)
(* the 11-bit values appended to it), most significant bit first; a slice  *)
(* [start:end] of at most a unit's width is read out of the two or three   *)
(* units it lies in.                                                       *)
(***************************************************************************)
UnitAt(units, k) == IF k <= Len(units) THEN units[k] ELSE 0

\* BitArray(bytes)[start:end].uint, for end - start <= 11
SliceUint(bytes, start, end) ==
    LET j == start \div 8
        off == start % 8
        v == 65536 * UnitAt(bytes, j + 1) + 256 * UnitAt(bytes, j + 2) + UnitAt(bytes, j + 3)
    IN  (v \div 2^(24 - off - (end - start))) % 2^(end - start)

\* The same slice of the bit array made of 11-bit values, for end - start <= 11
SliceUint11(values, start, end) ==
    LET j == start \div 11
        off == start % 11
        v == 2048 * UnitAt(values, j + 1) + UnitAt(values, j + 2)
    IN  (v \div 2^(22 - off - (end - start))) % 2^(end - start)

(***************************************************************************)
(* Collaborators outside keychain.py                                       *)
(***************************************************************************)
\* std_hash (SHA-256): the model keeps the digest's leading byte, the only
\* one the codec reads (CS <= 8), as a deterministic mix of the input.
RECURSIVE HashFrom(_, _, _)
HashFrom(bytes, k, h) == IF k > Len(bytes) THEN h
                         ELSE HashFrom(bytes, k + 1, (31 * h + bytes[k] + 1) % 256)
std_hash(bytes) == <<HashFrom(bytes, 1, 7)>>

\* english.txt: 2048 words; the i-th word (from 0) is <<"word", i>>
WORD_COUNT == 2048
bip39_word_list == [i \in 1..WORD_COUNT |-> <<"word", i - 1>>]

\* unicodedata.normalize("NFKD", s) on the model's alphabet: U+00C5 (A with
\* ring above) decomposes to U+0041 U+030A, every other code point is kept
RECURSIVE NFKD(_)
NFKD(s) == IF s = <<>> THEN <<>>
           ELSE (IF Head(s) = 197 THEN <<65, 778>> ELSE <<Head(s)>>) \o NFKD(Tail(s))

(***************************************************************************)
(* The mnemonic codec                                                      *)
(***************************************************************************)
bytes_to_mnemonic(mnemonic_bytes) ==
    IF Len(mnemonic_bytes) \notin {16, 20, 24, 28, 32}
    THEN <<"raise", "ValueError: Data length">>
    ELSE LET CS == Len(mnemonic_bytes) \div 4
             checksum == SliceUint(std_hash(mnemonic_bytes), 0, CS)
             \* BitArray(mnemonic_bytes) + checksum: the checksum's CS <= 8
             \* bits are the leading bits of one more byte
             bitarray == mnemonic_bytes \o <<checksum * 2^(8 - CS)>>
             length == 8 * Len(mnemonic_bytes) + CS
         IN  IF length % 11 # 0
             THEN <<"raise", "AssertionError">>
             ELSE <<"ok", Listed([i \in 1..length \div 11 |->
                             bip39_word_list[SliceUint(bitarray, 11 * (i - 1), 11 * i) + 1]])>>

\* A dict that numbers the words from 1
WordValueFromOne(word) == (word[2] + 1) % WORD_COUNT

\* word in word_list, and word_list[word], for the dict built from the list
InWordList(word) == word[1] = "word" /\ word[2] \in 0..WORD_COUNT - 1
WordValue(word) == CHOOSE i \in {word[2]} : bip39_word_list[i + 1] = word

bytes_from_mnemonic(mnemonic) ==
    IF Len(mnemonic) \notin {12, 15, 18, 21, 24}
    THEN <<"raise", "ValueError: Invalid mnemonic length">>
    ELSE IF \E i \in 1..Len(mnemonic) : ~InWordList(mnemonic[i])
    THEN <<"raise", "ValueError: not in the mnemonic dictionary",
           mnemonic[CHOOSE i \in 1..Len(mnemonic) :
                       /\ ~InWordList(mnemonic[i])
                       /\ \A j \in 1..i - 1 : InWordList(mnemonic[j])]>>
    ELSE LET \* one BitArray(uint=value, length=11) appended per word
             bit_array == Listed([i \in 1..Len(mnemonic) |-> WordValue(mnemonic[i])])
             CS == Len(mnemonic) \div 3
             ENT == Len(mnemonic) * 11 - CS
         IN  IF ENT % 32 # 0
             THEN <<"raise", "AssertionError">>
             ELSE LET entropy_bytes == Listed([k \in 1..ENT \div 8 |->
                                          SliceUint11(bit_array, 8 * (k - 1), 8 * k)])
                      checksum_bytes == SliceUint11(bit_array, ENT, 11 * Len(mnemonic))
                      checksum == SliceUint(std_hash(entropy_bytes), 0, CS)
                  IN  IF 11 * Len(mnemonic) - ENT # CS
                      THEN <<"raise", "AssertionError">>
                      ELSE IF checksum # checksum_bytes
                      THEN <<"raise", "ValueError: Invalid order of mnemonic words">>
                      ELSE <<"ok", entropy_bytes>>

(***************************************************************************)
(* Seed and key derivation                                                 *)
(***************************************************************************)
\* "mnemonic"
MNEMONIC_STR == <<109, 110, 101, 109, 111, 110, 105, 99>>

\* pbkdf2_hmac("sha512", password, salt, 2048): a 64-byte value that the
\* model identifies with the (password, salt) pair it is derived from:
\* <<"seed", password, salt>>.
\* The mnemonic's words are ASCII, which NFKD keeps.
mnemonic_to_seed(mnemonic, passphrase) ==
    <<"seed", mnemonic, NFKD(MNEMONIC_STR \o passphrase)>>

\* AugSchemeMPL.key_gen(seed): the private key of a seed
key_gen(seed) == <<"sk", seed>>

\* A mix of a sequence of numbers into one byte
RECURSIVE MixFrom(_, _, _)
MixFrom(s, k, h) == IF k > Len(s) THEN h
                    ELSE MixFrom(s, k + 1, (7 * h + s[k] + 3) % 256)

\* key.get_g1(): the public key, held as its G1_SIZE serialized bytes.  The
\* model's curve maps the seeds of the model to distinct public keys.
get_g1(key) ==
    LET password == key[2][2]
        salt == key[2][3]
    IN  <<MixFrom(Listed([i \in 1..Len(password) |-> password[i][2]]), 1, 0),
          MixFrom(salt, 1, 0)>>

\* pk.get_fingerprint(): distinct for the model's distinct public keys
get_fingerprint(pk) == 256 * pk[1] + pk[2]

(***************************************************************************)
(* The keyring store (KeyringWrapper's get/set/delete_password)            *)
(***************************************************************************)
get_password(st, service, user) ==
    IF <<service, user>> \in DOMAIN st THEN st[<<service, user>>] ELSE None

\* A keyring that keeps the value an entry already has
set_password_if_absent(st, service, user, value) ==
    [k \in DOMAIN st \cup {<<service, user>>} |->
        IF k \in DOMAIN st THEN st[k] ELSE value]

set_password(st, service, user, value) ==
    [k \in DOMAIN st \cup {<<service, user>>} |->
        IF k = <<service, user>> THEN value ELSE st[k]]

\* Whether delete_password raises: some keyrings raise on an entry that is absent
delete_password_raises(st, service, user) ==
    raises /\ <<service, user>> \notin DOMAIN st

delete_password(st, service, user) ==
    [k \in DOMAIN st \ {<<service, user>>} |-> st[k]]

(***************************************************************************)
(* Keychain: a keychain is [user |-> str, testing |-> bool]                *)
(***************************************************************************)
\* "chia-", "wallet-", "-test", "-"
CHIA_STR == <<99, 104, 105, 97, 45>>
WALLET_STR == <<119, 97, 108, 108, 101, 116, 45>>
TEST_STR == <<45, 116, 101, 115, 116>>
DASH_STR == <<45>>

_get_service(self) ==
    IF self.testing THEN CHIA_STR \o self.user \o TEST_STR
    ELSE CHIA_STR \o self.user

_get_private_key_user(self, i) ==
    IF self.testing THEN WALLET_STR \o self.user \o TEST_STR \o DASH_STR \o Decimal(i)
    ELSE WALLET_STR \o self.user \o DASH_STR \o Decimal(i)

\* The (public key, entropy) pair of a keyring entry, or None
_get_pk_and_entropy(self, st, user) ==
    LET read_str == get_password(st, _get_service(self), user)
    IN  IF read_str = None \/ Len(read_str) = 0 THEN None
        ELSE LET str_bytes == FromHex(read_str)
             IN  <<Take(str_bytes, G1_SIZE), Drop(str_bytes, G1_SIZE)>>

\* The pair stored at a key index
SlotEntry(self, st, i) == _get_pk_and_entropy(self, st, _get_private_key_user(self, i))

RECURSIVE FreeIndexFrom(_, _, _)
FreeIndexFrom(self, st, i) ==
    IF SlotEntry(self, st, i) = None THEN i ELSE FreeIndexFrom(self, st, i + 1)

\* A variant that never reuses a freed slot: the index after the last occupied one
FreeIndexAfterLast(self, st) ==
    CHOOSE i \in 0..MaxSlot + 1 :
        /\ \A j \in i..MaxSlot + 1 : SlotEntry(self, st, j) = None
        /\ (i > 0 => SlotEntry(self, st, i - 1) # None)

_get_free_private_key_index(self, st) == FreeIndexFrom(self, st, 0)

\* The scans' loop condition: while index <= MAX_KEYS
ScanContinues(i) == i <= MAX_KEYS

\* get_all_public_keys: the loop, entered with index = 0 and the entry of slot 0
RECURSIVE AllPublicKeysLoop(_, _, _, _, _)
AllPublicKeysLoop(self, st, i, ent, all_keys) ==
    IF ScanContinues(i)
    THEN AllPublicKeysLoop(self, st, i + 1, SlotEntry(self, st, i + 1),
                           IF ent # None THEN Append(all_keys, ent[1]) ELSE all_keys)
    ELSE all_keys

\* A variant whose scan ends at the first empty slot
AllPublicKeysUntilEmpty(self, st) ==
    LET RECURSIVE From(_)
        From(i) == IF ScanContinues(i) /\ SlotEntry(self, st, i) # None
                   THEN <<SlotEntry(self, st, i)[1]>> \o From(i + 1)
                   ELSE <<>>
    IN  From(0)

get_all_public_keys(self, st) ==
    AllPublicKeysLoop(self, st, 0, SlotEntry(self, st, 0), <<>>)

RECURSIVE FirstPublicKeyLoop(_, _, _, _)
FirstPublicKeyLoop(self, st, i, ent) ==
    IF ScanContinues(i)
    THEN IF ent # None THEN ent[1]
         ELSE FirstPublicKeyLoop(self, st, i + 1, SlotEntry(self, st, i + 1))
    ELSE None

get_first_public_key(self, st) ==
    FirstPublicKeyLoop(self, st, 0, SlotEntry(self, st, 0))

\* The key that a stored entropy and a candidate passphrase regenerate:
\* bytes_to_mnemonic, mnemonic_to_seed, key_gen (a raise of the codec is kept)
RegeneratedKey(ent, pp) ==
    LET mnemonic == bytes_to_mnemonic(ent)
    IN  IF mnemonic[1] = "raise" THEN mnemonic
        ELSE <<"ok", key_gen(mnemonic_to_seed(mnemonic[2], pp))>>

\* get_first_private_key: the inner loop over the passphrases, from the j-th;
\* None when the loop ends without a return
RECURSIVE FirstPrivateKeyTry(_, _, _, _)
FirstPrivateKeyTry(pk, ent, passphrases, j) ==
    IF j > Len(passphrases) THEN None
    ELSE LET key == RegeneratedKey(ent, passphrases[j])
         IN  IF key[1] = "raise" THEN key
             ELSE IF get_g1(key[2]) = pk THEN <<"ok", <<key[2], ent>>>>
             ELSE FirstPrivateKeyTry(pk, ent, passphrases, j + 1)

RECURSIVE FirstPrivateKeyLoop(_, _, _, _, _)
FirstPrivateKeyLoop(self, st, passphrases, i, ent) ==
    IF ScanContinues(i)
    THEN LET found == IF ent # None THEN FirstPrivateKeyTry(ent[1], ent[2], passphrases, 1)
                      ELSE None
         IN  IF found # None THEN found
             ELSE FirstPrivateKeyLoop(self, st, passphrases, i + 1, SlotEntry(self, st, i + 1))
    ELSE <<"ok", None>>

\* A variant whose scan starts at index 1
FirstPrivateKeyFromOne(self, st, passphrases) ==
    FirstPrivateKeyLoop(self, st, passphrases, 1, SlotEntry(self, st, 1))

get_first_private_key(self, st, passphrases) ==
    FirstPrivateKeyLoop(self, st, passphrases, 0, SlotEntry(self, st, 0))

\* get_private_key_by_fingerprint: the inner loop over the passphrases
RECURSIVE ByFingerprintTry(_, _, _, _, _)
ByFingerprintTry(pk, ent, fingerprint, passphrases, j) ==
    IF j > Len(passphrases) THEN None
    ELSE LET key == RegeneratedKey(ent, passphrases[j])
         IN  IF key[1] = "raise" THEN key
             ELSE IF get_fingerprint(pk) = fingerprint THEN <<"ok", <<key[2], ent>>>>
             ELSE ByFingerprintTry(pk, ent, fingerprint, passphrases, j + 1)

RECURSIVE ByFingerprintLoop(_, _, _, _, _, _)
ByFingerprintLoop(self, st, fingerprint, passphrases, i, ent) ==
    IF ScanContinues(i)
    THEN LET found == IF ent # None
                      THEN ByFingerprintTry(ent[1], ent[2], fingerprint, passphrases, 1)
                      ELSE None
         IN  IF found # None THEN found
             ELSE ByFingerprintLoop(self, st, fingerprint, passphrases, i + 1,
                                    SlotEntry(self, st, i + 1))
    ELSE <<"ok", None>>

get_private_key_by_fingerprint(self, st, fingerprint, passphrases) ==
    ByFingerprintLoop(self, st, fingerprint, passphrases, 0, SlotEntry(self, st, 0))

\* get_all_private_keys: the inner loop appends one pair per accepted passphrase
RECURSIVE AllPrivateKeysTry(_, _, _, _, _)
AllPrivateKeysTry(pk, ent, passphrases, j, all_keys) ==
    IF j > Len(passphrases) THEN <<"ok", all_keys>>
    ELSE LET key == RegeneratedKey(ent, passphrases[j])
         IN  IF key[1] = "raise" THEN key
             ELSE AllPrivateKeysTry(pk, ent, passphrases, j + 1,
                                    IF get_g1(key[2]) = pk
                                    THEN Append(all_keys, <<key[2], ent>>)
                                    ELSE all_keys)

RECURSIVE AllPrivateKeysLoop(_, _, _, _, _, _)
AllPrivateKeysLoop(self, st, passphrases, i, ent, all_keys) ==
    IF ScanContinues(i)
    THEN LET tried == IF ent # None
                      THEN AllPrivateKeysTry(ent[1], ent[2], passphrases, 1, all_keys)
                      ELSE <<"ok", all_keys>>
         IN  IF tried[1] = "raise" THEN tried
             ELSE AllPrivateKeysLoop(self, st, passphrases, i + 1,
                                     SlotEntry(self, st, i + 1), tried[2])
    ELSE <<"ok", all_keys>>

get_all_private_keys(self, st, passphrases) ==
    AllPrivateKeysLoop(self, st, passphrases, 0, SlotEntry(self, st, 0), <<>>)

\* delete_key_by_fingerprint: the keyring after the call
RECURSIVE DeleteByFingerprintLoop(_, _, _, _)
DeleteByFingerprintLoop(self, st, fingerprint, i) ==
    IF ScanContinues(i)
    THEN LET ent == SlotEntry(self, st, i)
         IN  DeleteByFingerprintLoop(
                 self,
                 IF ent # None /\ get_fingerprint(ent[1]) = fingerprint
                 THEN delete_password(st, _get_service(self), _get_private_key_user(self, i))
                 ELSE st,
                 fingerprint, i + 1)
    ELSE st

\* A variant whose scan starts at index 1
DeleteByFingerprintFromOne(self, st, fingerprint) ==
    DeleteByFingerprintLoop(self, st, fingerprint, 1)

delete_key_by_fingerprint(self, st, fingerprint) ==
    DeleteByFingerprintLoop(self, st, fingerprint, 0)

\* A variant that writes the slot before it decodes the mnemonic
AddWritesBeforeDecoding(self, st, mnemonic, passphrase) ==
    LET key == key_gen(mnemonic_to_seed(mnemonic, passphrase))
        entropy == bytes_from_mnemonic(mnemonic)
    IN  [result |-> IF entropy[1] = "raise" THEN entropy ELSE <<"ok", key>>,
         store |-> set_password(st, _get_service(self),
                                _get_private_key_user(self, FreeIndexFrom(self, st, 0)),
                                Hex(get_g1(key))
                                    \o (IF entropy[1] = "raise" THEN <<>> ELSE Hex(entropy[2])))]

\* add_private_key: [result, store], the call's outcome and the keyring after it
add_private_key(self, st, mnemonic, passphrase) ==
    LET seed == mnemonic_to_seed(mnemonic, passphrase)
        entropy == bytes_from_mnemonic(mnemonic)
    IN  IF entropy[1] = "raise" THEN [result |-> entropy, store |-> st]
        ELSE LET i == _get_free_private_key_index(self, st)
                 key == key_gen(seed)
                 fingerprint == get_fingerprint(get_g1(key))
                 pks == get_all_public_keys(self, st)
             IN  IF fingerprint \in {get_fingerprint(pks[j]) : j \in 1..Len(pks)}
                 THEN [result |-> <<"ok", key>>, store |-> st]
                 ELSE [result |-> <<"ok", key>>,
                       store |-> set_password(st, _get_service(self),
                                              _get_private_key_user(self, i),
                                              Hex(get_g1(key)) \o Hex(entropy[2]))]

(***************************************************************************)
(* Keyring round trips: the get_password, set_password and delete_password *)
(* calls an operation makes, counted along its loops                       *)
(***************************************************************************)
\* get_all_public_keys: one read before the loop, one in every iteration
RECURSIVE AllPublicKeysReads(_)
AllPublicKeysReads(i) == IF ScanContinues(i) THEN 1 + AllPublicKeysReads(i + 1) ELSE 0

get_all_public_keys_round_trips == 1 + AllPublicKeysReads(0)

\* get_first_public_key: the loop returns at the first occupied slot
RECURSIVE FirstPublicKeyReads(_, _, _, _)
FirstPublicKeyReads(self, st, i, ent) ==
    IF ScanContinues(i) /\ ent = None
    THEN 1 + FirstPublicKeyReads(self, st, i + 1, SlotEntry(self, st, i + 1))
    ELSE 0

get_first_public_key_round_trips(self, st) ==
    1 + FirstPublicKeyReads(self, st, 0, SlotEntry(self, st, 0))

\* add_private_key: nothing when the codec raises; else the reads of
\* _get_free_private_key_index (indices 0..index), those of
\* get_all_public_keys, and the write when the key is new
add_private_key_round_trips(self, st, mnemonic, passphrase) ==
    IF bytes_from_mnemonic(mnemonic)[1] = "raise" THEN 0
    ELSE (_get_free_private_key_index(self, st) + 1)
         + get_all_public_keys_round_trips
         + (IF add_private_key(self, st, mnemonic, passphrase).store # st THEN 1 ELSE 0)

\* The round trips of a call, on the keyring it began on
RoundTrips(op, self, st, args) ==
    CASE op = "get_all_public_keys" -> get_all_public_keys_round_trips
      [] op = "get_first_public_key" -> get_first_public_key_round_trips(self, st)
      [] op = "add_private_key" -> add_private_key_round_trips(self, st, args[1], args[2])

(***************************************************************************)
(* Inputs of the model                                                     *)
(***************************************************************************)
\* Secondary passphrases: "", "abc", U+00C5, and U+0041 U+030A
EMPTY_STR == <<>>
ABC_STR == <<97, 98, 99>>
A_RING_STR == <<197>>
A_RING_DECOMPOSED_STR == <<65, 778>>

\* Entropy of 16 and of 20 bytes, and the mnemonics that encode them
Entropy1 == Listed([i \in 1..16 |-> 0])
Entropy2 == Listed([i \in 1..20 |-> (37 * i) % 256])
Mnemonic1 == bytes_to_mnemonic(Entropy1)[2]
Mnemonic2 == bytes_to_mnemonic(Entropy2)[2]

\* The (mnemonic, passphrase) pairs given to add_private_key
AddInputs == {<<Mnemonic1, EMPTY_STR>>, <<Mnemonic1, ABC_STR>>,
              <<Mnemonic2, EMPTY_STR>>, <<Mnemonic2, A_RING_STR>>}

KeyOf(input) == key_gen(mnemonic_to_seed(input[1], input[2]))

\* The fingerprints given to the lookups and to delete_key_by_fingerprint
Fingerprints == {get_fingerprint(get_g1(KeyOf(input))) : input \in AddInputs}

\* The candidate passphrase lists given to the lookups
PassphraseLists == {<<>>, <<EMPTY_STR>>, <<ABC_STR>>, <<EMPTY_STR, ABC_STR>>,
                    <<ABC_STR, EMPTY_STR>>, <<A_RING_DECOMPOSED_STR>>,
                    <<EMPTY_STR, EMPTY_STR>>}

\* The keychain of the main specification: Keychain(user="a", testing=False)
USER_A == <<97>>
MainKeychain == [user |-> USER_A, testing |-> FALSE]
Keychains == {MainKeychain}

(***************************************************************************)
(* The state machine                                                       *)
(***************************************************************************)
NoCall == [op |-> "none", self |-> [user |-> <<>>, testing |-> FALSE],
           args |-> <<>>, result |-> None]
\* None where a str is expected: no str, since -1 is no code point
NoneStr == <<-1>>

NoCache == [passphrase |-> NoneStr, validated |-> FALSE]

\* The unlocks_keyring wrapper at rest.  use_passphrase_cache: the decorator's
\* argument; i: the prompt loop's variable; prompts: the getpass calls made;
\* obtained, source: what obtain_current_passphrase returned and from where;
\* invoked, value: whether func ran, and what it returned; result: what the
\* wrapper returned (values are numbers, 0 standing for none yet); accepted:
\* a prompt of a cache-using call was accepted and nothing has been put in
\* the cache by hand since (kept from one call to the next)
NoGate == [pc |-> "idle", use_passphrase_cache |-> FALSE, i |-> 0, prompts |-> 0,
           obtained |-> NoneStr, source |-> "none", invoked |-> FALSE,
           value |-> 0, result |-> 0, accepted |-> FALSE]

\* One add_private_key call of the side-by-side runs, not begun.  i: the
\* index of _get_free_private_key_index's scan; index: the index it returned;
\* j, pkent, all_keys: get_all_public_keys' index, pkent and all_keys
NoAdd == [pc |-> "idle", mnemonic |-> <<>>, passphrase |-> <<>>, i |-> 0, index |-> -1,
          j |-> 0, pkent |-> None, all_keys |-> <<>>, result |-> None]

\* No call running; writes: the callers in the order of their set_password calls
NoCalls == [proc |-> <<NoAdd, NoAdd>>, writes |-> <<>>]

storeVars == <<store, raises>>
deleteAllVars == <<index, pkent, delete_exception>>
gateVars == <<master, cache, gate>>

\* An empty keyring of either kind, no master passphrase configured
Init ==
    /\ store = <<>>
    /\ raises \in BOOLEAN
    /\ pc = "idle"
    /\ ret = NoCall
    /\ before = <<>>
    /\ index = 0
    /\ pkent = None
    /\ delete_exception = FALSE
    /\ master = NoneStr
    /\ cache = NoCache
    /\ gate = NoGate
    /\ calls = NoCalls

Returned(op, self, args, result) ==
    /\ pc' = "returned"
    /\ ret' = [op |-> op, self |-> self, args |-> args, result |-> result]

Called == pc = "idle" /\ before' = store

AddPrivateKey(self, mnemonic, passphrase) ==
    /\ Called
    /\ _get_free_private_key_index(self, store) <= MaxSlot
    /\ LET r == add_private_key(self, store, mnemonic, passphrase)
       IN  /\ store' = r.store
           /\ Returned("add_private_key", self, <<mnemonic, passphrase>>, r.result)
    /\ UNCHANGED <<raises, deleteAllVars, gateVars, calls>>

GetFirstPrivateKey(self, passphrases) ==
    /\ Called
    /\ Returned("get_first_private_key", self, <<passphrases>>,
                get_first_private_key(self, store, passphrases))
    /\ UNCHANGED <<storeVars, deleteAllVars, gateVars, calls>>

GetPrivateKeyByFingerprint(self, fingerprint, passphrases) ==
    /\ Called
    /\ Returned("get_private_key_by_fingerprint", self, <<fingerprint, passphrases>>,
                get_private_key_by_fingerprint(self, store, fingerprint, passphrases))
    /\ UNCHANGED <<storeVars, deleteAllVars, gateVars, calls>>

GetAllPrivateKeys(self, passphrases) ==
    /\ Called
    /\ Returned("get_all_private_keys", self, <<passphrases>>,
                get_all_private_keys(self, store, passphrases))
    /\ UNCHANGED <<storeVars, deleteAllVars, gateVars, calls>>

GetAllPublicKeys(self) ==
    /\ Called
    /\ Returned("get_all_public_keys", self, <<>>, <<"ok", get_all_public_keys(self, store)>>)
    /\ UNCHANGED <<storeVars, deleteAllVars, gateVars, calls>>

GetFirstPublicKey(self) ==
    /\ Called
    /\ Returned("get_first_public_key", self, <<>>, <<"ok", get_first_public_key(self, store)>>)
    /\ UNCHANGED <<storeVars, deleteAllVars, gateVars, calls>>

DeleteKeyByFingerprint(self, fingerprint) ==
    /\ Called
    /\ store' = delete_key_by_fingerprint(self, store, fingerprint)
    /\ Returned("delete_key_by_fingerprint", self, <<fingerprint>>, <<"ok", None>>)
    /\ UNCHANGED <<raises, deleteAllVars, gateVars, calls>>

\* A variant that stops at the first empty slot or failed delete
DeleteAllStopsAtFirstEmpty(ent, exception, i) == ent = None \/ exception

\* delete_all_keys, one loop iteration per step.  The loops' exit test:
\* (pkent is None or delete_exception) and index > MAX_KEYS
DeleteAllStops(ent, exception, i) == (ent = None \/ exception) /\ i > MAX_KEYS

DeleteAllKeys(self) ==
    /\ Called
    /\ pc' = "delete_all_1"
    /\ ret' = [op |-> "delete_all_keys", self |-> self, args |-> <<>>, result |-> None]
    /\ index' = 0
    /\ delete_exception' = FALSE
    /\ pkent' = None
    /\ UNCHANGED <<storeVars, gateVars, calls>>

\* The try block of either loop: read the slot, then delete it
DeleteAllTry ==
    LET user == _get_private_key_user(ret.self, index)
    IN  /\ pkent' = _get_pk_and_entropy(ret.self, store, user)
        /\ IF delete_password_raises(store, _get_service(ret.self), user)
           THEN delete_exception' = TRUE /\ store' = store
           ELSE /\ delete_exception' = delete_exception
                /\ store' = delete_password(store, _get_service(ret.self), user)

\* The first loop; on its exit the second loop's variables are set
DeleteAllLoop1 ==
    /\ pc = "delete_all_1"
    /\ DeleteAllTry
    /\ IF DeleteAllStops(pkent', delete_exception', index)
       THEN pc' = "delete_all_between" /\ index' = index
       ELSE pc' = pc /\ index' = index + 1
    /\ UNCHANGED <<ret, before, raises, gateVars, calls>>

\* index = 0; delete_exception = True; pkent = None
DeleteAllBetween ==
    /\ pc = "delete_all_between"
    /\ pc' = "delete_all_2"
    /\ index' = 0
    /\ delete_exception' = TRUE
    /\ pkent' = None
    /\ UNCHANGED <<storeVars, ret, before, gateVars, calls>>

DeleteAllLoop2 ==
    /\ pc = "delete_all_2"
    /\ DeleteAllTry
    /\ IF DeleteAllStops(pkent', delete_exception', index)
       THEN /\ Returned("delete_all_keys", ret.self, <<>>, <<"ok", None>>)
            /\ index' = index
       ELSE /\ index' = index + 1
            /\ UNCHANGED <<pc, ret>>
    /\ UNCHANGED <<before, raises, gateVars, calls>>

\* The caller takes the result
Return ==
    /\ pc = "returned"
    /\ pc' = "idle"
    /\ ret' = NoCall
    /\ before' = <<>>
    /\ UNCHANGED <<storeVars, deleteAllVars, gateVars, calls>>

Next ==
    \/ \E self \in Keychains, input \in AddInputs : AddPrivateKey(self, input[1], input[2])
    \/ \E self \in Keychains, pps \in PassphraseLists : GetFirstPrivateKey(self, pps)
    \/ \E self \in Keychains, fp \in Fingerprints, pps \in PassphraseLists :
           GetPrivateKeyByFingerprint(self, fp, pps)
    \/ \E self \in Keychains, pps \in PassphraseLists : GetAllPrivateKeys(self, pps)
    \/ \E self \in Keychains : GetAllPublicKeys(self)
    \/ \E self \in Keychains : GetFirstPublicKey(self)
    \/ \E self \in Keychains, fp \in Fingerprints : DeleteKeyByFingerprint(self, fp)
    \/ \E self \in Keychains : DeleteAllKeys(self)
    \/ DeleteAllLoop1
    \/ DeleteAllBetween
    \/ DeleteAllLoop2
    \/ Return

Spec == Init /\ [][Next]_vars

\* The calls that change the keyring
NextMutation ==
    \/ \E self \in Keychains, input \in AddInputs : AddPrivateKey(self, input[1], input[2])
    \/ \E self \in Keychains, fp \in Fingerprints : DeleteKeyByFingerprint(self, fp)
    \/ \E self \in Keychains : DeleteAllKeys(self)
    \/ DeleteAllLoop1
    \/ DeleteAllBetween
    \/ DeleteAllLoop2
    \/ Return

\* The keyrings that adds and deletes reach, with the scheduling of a call in
\* progress: a loop iteration of delete_all_keys that can run, runs
MutationSpec ==
    /\ Init
    /\ [][NextMutation]_vars
    /\ WF_vars(DeleteAllLoop1)
    /\ WF_vars(DeleteAllBetween)
    /\ WF_vars(DeleteAllLoop2)

(***************************************************************************)
(* Several keychains over one keyring                                      *)
(***************************************************************************)
\* "a-test"
USER_A_TEST == <<97, 45, 116, 101, 115, 116>>

NSKeychains == {[user |-> USER_A, testing |-> TRUE],
                [user |-> USER_A_TEST, testing |-> FALSE],
                [user |-> USER_A, testing |-> FALSE]}

NSAddInputs == {<<Mnemonic1, EMPTY_STR>>, <<Mnemonic2, EMPTY_STR>>}

NSFingerprints == {get_fingerprint(get_g1(KeyOf(input))) : input \in NSAddInputs}

NextNS ==
    \/ \E self \in NSKeychains, input \in NSAddInputs :
           AddPrivateKey(self, input[1], input[2])
    \/ \E self \in NSKeychains : GetAllPublicKeys(self)
    \/ \E self \in NSKeychains, fp \in NSFingerprints : DeleteKeyByFingerprint(self, fp)
    \/ \E self \in NSKeychains : DeleteAllKeys(self)
    \/ DeleteAllLoop1
    \/ DeleteAllBetween
    \/ DeleteAllLoop2
    \/ Return

SpecNS == Init /\ [][NextNS]_vars

(***************************************************************************)
(* The passphrase gate: unlocks_keyring and obtain_current_passphrase      *)
(***************************************************************************)
\* KeyringWrapper's passphrase interface
has_master_passphrase == master # NoneStr
master_passphrase_is_valid(passphrase) == has_master_passphrase /\ passphrase = master
get_cached_master_passphrase == <<cache.passphrase, cache.validated>>
set_cached_master_passphrase(passphrase, validated) ==
    [passphrase |-> passphrase, validated |-> validated]

\* Python's truth value of an Optional[str]
Truthy(passphrase) == passphrase # NoneStr /\ passphrase # <<>>

\* The passphrases of the model: "", "abc", "x"
X_STR == <<120>>
GatePassphrases == {EMPTY_STR, ABC_STR, X_STR}

\* What a wrapped function returns
FuncValues == {1, 2}

keychainVars == <<store, raises, pc, ret, before, index, pkent, delete_exception>>

\* Keychain.set_cached_master_passphrase(passphrase)
SetCachedMasterPassphrase(passphrase) ==
    /\ gate.pc = "idle"
    /\ cache' = set_cached_master_passphrase(passphrase, FALSE)
    /\ gate' = [gate EXCEPT !.accepted = FALSE]
    /\ UNCHANGED <<keychainVars, calls, master>>

\* wrapper: a decorated function is called
GateCall(use_passphrase_cache) ==
    /\ gate.pc = "idle"
    /\ gate' = [NoGate EXCEPT !.use_passphrase_cache = use_passphrase_cache,
                              !.accepted = gate.accepted,
                              !.pc = IF has_master_passphrase THEN "obtain" ELSE "invoke"]
    /\ UNCHANGED <<keychainVars, calls, master, cache>>

\* What the cache part of obtain_current_passphrase does: returns the cached
\* passphrase, or falls through to the prompts (after clearing a bad cache)
ObtainFromCache ==
    LET passphrase == get_cached_master_passphrase[1]
        validated == get_cached_master_passphrase[2]
    IN  IF gate.use_passphrase_cache /\ Truthy(passphrase)
        THEN IF validated
             THEN [returns |-> TRUE, source |-> "validated cache", cache |-> cache]
             ELSE IF master_passphrase_is_valid(passphrase)
             THEN [returns |-> TRUE, source |-> "cache validated now",
                   cache |-> set_cached_master_passphrase(passphrase, TRUE)]
             ELSE [returns |-> FALSE, source |-> "none",
                   cache |-> set_cached_master_passphrase(NoneStr, FALSE)]
        ELSE [returns |-> FALSE, source |-> "none", cache |-> cache]

GateObtain ==
    /\ gate.pc = "obtain"
    /\ LET r == ObtainFromCache
       IN  /\ cache' = r.cache
           /\ gate' = IF r.returns
                      THEN [gate EXCEPT !.pc = "invoke", !.obtained = cache.passphrase,
                                        !.source = r.source]
                      ELSE [gate EXCEPT !.pc = "prompt", !.i = 0]
    /\ UNCHANGED <<keychainVars, calls, master>>

\* A variant that accepts whatever is typed
PromptAcceptsAny(passphrase) == TRUE

\* Whether a prompted passphrase is accepted
PromptAccepts(passphrase) == master_passphrase_is_valid(passphrase)

\* A loop that runs once more
RetriesLeftOneMore(i) == i <= MAX_RETRIES

\* for i in range(MAX_RETRIES)
RetriesLeft(i) == i < MAX_RETRIES

\* One iteration of the prompt loop: getpass, then the validator
GatePrompt(passphrase) ==
    /\ gate.pc = "prompt"
    /\ RetriesLeft(gate.i)
    /\ IF PromptAccepts(passphrase)
       THEN /\ cache' = IF gate.use_passphrase_cache
                        THEN set_cached_master_passphrase(passphrase, TRUE)
                        ELSE cache
            /\ gate' = [gate EXCEPT !.pc = "invoke", !.prompts = @ + 1,
                                    !.obtained = passphrase, !.source = "prompt",
                                    !.accepted = gate.use_passphrase_cache]
       ELSE /\ cache' = cache
            /\ gate' = [gate EXCEPT !.i = @ + 1, !.prompts = @ + 1]
    /\ UNCHANGED <<keychainVars, calls, master>>

\* The loop ends: ValueError, which the wrapper turns into sys.exit(1)
GateExhausted ==
    /\ gate.pc = "prompt"
    /\ ~RetriesLeft(gate.i)
    /\ gate' = [gate EXCEPT !.pc = "exited"]
    /\ UNCHANGED <<keychainVars, calls, master, cache>>

\* func(*args, **kwargs) runs
GateInvoke(value) ==
    /\ gate.pc = "invoke"
    /\ gate' = [gate EXCEPT !.pc = "invoked", !.invoked = TRUE, !.value = value]
    /\ UNCHANGED <<keychainVars, calls, master, cache>>

\* What the wrapper returns of func's value
WrapperResult(value) == value

GateReturn ==
    /\ gate.pc = "invoked"
    /\ gate' = [gate EXCEPT !.pc = "returned", !.result = WrapperResult(gate.value)]
    /\ UNCHANGED <<keychainVars, calls, master, cache>>

\* The caller goes on to its next call
GateDone ==
    /\ gate.pc = "returned"
    /\ gate' = [NoGate EXCEPT !.accepted = gate.accepted]
    /\ UNCHANGED <<keychainVars, calls, master, cache>>

\* A keyring with or without a master passphrase, nothing cached
InitGate ==
    /\ store = <<>>
    /\ raises = FALSE
    /\ pc = "idle"
    /\ ret = NoCall
    /\ before = <<>>
    /\ index = 0
    /\ pkent = None
    /\ delete_exception = FALSE
    /\ master \in {NoneStr} \cup GatePassphrases
    /\ cache = NoCache
    /\ gate = NoGate
    /\ calls = NoCalls

NextGate ==
    \/ \E passphrase \in {NoneStr} \cup GatePassphrases : SetCachedMasterPassphrase(passphrase)
    \/ \E use_passphrase_cache \in BOOLEAN : GateCall(use_passphrase_cache)
    \/ GateObtain
    \/ \E passphrase \in GatePassphrases : GatePrompt(passphrase)
    \/ GateExhausted
    \/ \E value \in FuncValues : GateInvoke(value)
    \/ GateReturn
    \/ GateDone

SpecGate == InitGate /\ [][NextGate]_vars

\* getpass returns and the loop goes on: the prompt loop is not interrupted
SpecGateLive ==
    /\ InitGate /\ [][NextGate]_vars
    /\ WF_vars(\E passphrase \in GatePassphrases : GatePrompt(passphrase))
    /\ WF_vars(GateExhausted)

(***************************************************************************)
(* add_private_key with mnemonics the codec rejects, among adds and        *)
(* deletes of good keys                                                    *)
(***************************************************************************)
\* A word that is not in english.txt
TYPO_WORD == <<"typo", 0>>

\* Mnemonic2 cut to 11 words and grown to 13; with a word outside the list
\* (the 3rd); with its first two words exchanged, and with another last
\* word: the checksum no longer matches
ShortMnemonic == Take(Mnemonic2, 11)
LongMnemonic == Append(Take(Mnemonic2, 12), Mnemonic2[1])
TypoMnemonic == [Mnemonic2 EXCEPT ![3] = TYPO_WORD]
SwappedMnemonic == [Mnemonic2 EXCEPT ![1] = Mnemonic2[2], ![2] = Mnemonic2[1]]
OtherLastWordMnemonic ==
    [Mnemonic2 EXCEPT ![Len(Mnemonic2)] = <<"word", (@[2] + 1) % WORD_COUNT>>]

BadMnemonics ==
    {ShortMnemonic, LongMnemonic, TypoMnemonic, SwappedMnemonic, OtherLastWordMnemonic}

BadInputs == {<<mnemonic, passphrase>> : mnemonic \in BadMnemonics,
                                         passphrase \in {EMPTY_STR, ABC_STR}}

NextAdd ==
    \/ \E self \in Keychains, input \in AddInputs \cup BadInputs :
           AddPrivateKey(self, input[1], input[2])
    \/ \E self \in Keychains, fp \in Fingerprints : DeleteKeyByFingerprint(self, fp)
    \/ Return

SpecAdd == Init /\ [][NextAdd]_vars

(***************************************************************************)
(* Two add_private_key calls on one namespace, side by side: a step is one *)
(* read or one write of the keyring by one of the callers                  *)
(***************************************************************************)
Callers == {1, 2}

\* The keyrings the two callers start on: empty, or one key at index 0
RaceStores ==
    {<<>>, add_private_key(MainKeychain, <<>>, Mnemonic2, A_RING_STR).store}

InitRace ==
    /\ store \in RaceStores
    /\ raises = FALSE
    /\ pc = "idle"
    /\ ret = NoCall
    /\ before = <<>>
    /\ index = 0
    /\ pkent = None
    /\ delete_exception = FALSE
    /\ master = NoneStr
    /\ cache = NoCache
    /\ gate = NoGate
    /\ calls = NoCalls

raceFrame == <<raises, pc, ret, before, deleteAllVars, gateVars>>

\* add_private_key is called: the seed and the entropy are computed
RaceCall(p, mnemonic, passphrase) ==
    /\ calls.proc[p].pc = "idle"
    /\ LET entropy == bytes_from_mnemonic(mnemonic)
       IN  calls' = [calls EXCEPT !.proc[p] =
                IF entropy[1] = "raise"
                THEN [NoAdd EXCEPT !.pc = "returned", !.mnemonic = mnemonic,
                                   !.passphrase = passphrase, !.result = entropy]
                ELSE [NoAdd EXCEPT !.pc = "free_index", !.mnemonic = mnemonic,
                                   !.passphrase = passphrase]]
    /\ UNCHANGED <<store, raceFrame>>

\* _get_free_private_key_index: one iteration, one read
RaceFreeIndex(p) ==
    LET call == calls.proc[p]
    IN  /\ call.pc = "free_index"
        /\ calls' = [calls EXCEPT !.proc[p] =
                IF SlotEntry(MainKeychain, store, call.i) = None
                THEN [call EXCEPT !.index = call.i, !.pc = "all_public_keys"]
                ELSE [call EXCEPT !.i = @ + 1]]
        /\ UNCHANGED <<store, raceFrame>>

\* get_all_public_keys: the read before the loop
RaceFirstRead(p) ==
    LET call == calls.proc[p]
    IN  /\ call.pc = "all_public_keys"
        /\ calls' = [calls EXCEPT !.proc[p] =
                [call EXCEPT !.j = 0, !.pkent = SlotEntry(MainKeychain, store, 0),
                             !.pc = "loop"]]
        /\ UNCHANGED <<store, raceFrame>>

\* get_all_public_keys: one iteration of the loop, with its read
RaceLoop(p) ==
    LET call == calls.proc[p]
    IN  /\ call.pc = "loop"
        /\ ScanContinues(call.j)
        /\ calls' = [calls EXCEPT !.proc[p] =
                [call EXCEPT !.all_keys = IF call.pkent # None
                                          THEN Append(@, call.pkent[1]) ELSE @,
                             !.j = @ + 1,
                             !.pkent = SlotEntry(MainKeychain, store, call.j + 1)]]
        /\ UNCHANGED <<store, raceFrame>>

\* The duplicate test on the list get_all_public_keys returned
RaceDuplicateTest(p) ==
    LET call == calls.proc[p]
        key == key_gen(mnemonic_to_seed(call.mnemonic, call.passphrase))
        fingerprint == get_fingerprint(get_g1(key))
    IN  /\ call.pc = "loop"
        /\ ~ScanContinues(call.j)
        /\ calls' = [calls EXCEPT !.proc[p] =
                IF fingerprint \in {get_fingerprint(call.all_keys[k]) :
                                        k \in 1..Len(call.all_keys)}
                THEN [call EXCEPT !.pc = "returned", !.result = <<"ok", key>>]
                ELSE [call EXCEPT !.pc = "set_password"]]
        /\ UNCHANGED <<store, raceFrame>>

\* set_password at the index chosen, and the return
RaceWrite(p) ==
    LET call == calls.proc[p]
        key == key_gen(mnemonic_to_seed(call.mnemonic, call.passphrase))
        entropy == bytes_from_mnemonic(call.mnemonic)
    IN  /\ call.pc = "set_password"
        /\ store' = set_password(store, _get_service(MainKeychain),
                                 _get_private_key_user(MainKeychain, call.index),
                                 Hex(get_g1(key)) \o Hex(entropy[2]))
        /\ calls' = [calls EXCEPT !.proc[p] =
                                    [call EXCEPT !.pc = "returned", !.result = <<"ok", key>>],
                                 !.writes = Append(@, p)]
        /\ UNCHANGED raceFrame

NextRace ==
    \/ \E p \in Callers, input \in AddInputs : RaceCall(p, input[1], input[2])
    \/ \E p \in Callers : RaceFreeIndex(p)
    \/ \E p \in Callers : RaceFirstRead(p)
    \/ \E p \in Callers : RaceLoop(p)
    \/ \E p \in Callers : RaceDuplicateTest(p)
    \/ \E p \in Callers : RaceWrite(p)

SpecRace == InitRace /\ [][NextRace]_vars

(***************************************************************************)
(* The codec on its own: an entropy is encoded, the mnemonic decoded       *)
(***************************************************************************)
EntropyLengths == {16, 20, 24, 28, 32}
EntropySteps == {0, 1, 37, 255}
EntropyOffsets == 0..MaxOffset \cup {255}

EntropyOf(length, a, b) == Listed([i \in 1..length |-> (a * i + b) % 256])

Entropies ==
    {EntropyOf(length, a, b) : length \in EntropyLengths, a \in EntropySteps,
                               b \in EntropyOffsets}

InitCodec ==
    /\ store = <<>>
    /\ raises = FALSE
    /\ pc = "idle"
    /\ ret \in {[op |-> "none", self |-> NoCall.self, args |-> <<e>>, result |-> None] :
                   e \in Entropies}
    /\ before = <<>>
    /\ index = 0
    /\ pkent = None
    /\ delete_exception = FALSE
    /\ master = NoneStr
    /\ cache = NoCache
    /\ gate = NoGate
    /\ calls = NoCalls

\* bytes_to_mnemonic(entropy)
Encode ==
    /\ pc = "idle"
    /\ pc' = "encoded"
    /\ ret' = [ret EXCEPT !.op = "bytes_to_mnemonic",
                          !.result = bytes_to_mnemonic(ret.args[1])]
    /\ UNCHANGED <<storeVars, before, deleteAllVars, gateVars, calls>>

\* bytes_from_mnemonic(mnemonic) of the mnemonic just made
Decode ==
    /\ pc = "encoded"
    /\ ret.result[1] = "ok"
    /\ pc' = "decoded"
    /\ ret' = [ret EXCEPT !.op = "bytes_from_mnemonic",
                          !.args = <<ret.args[1], ret.result[2]>>,
                          !.result = bytes_from_mnemonic(ret.result[2])]
    /\ UNCHANGED <<storeVars, before, deleteAllVars, gateVars, calls>>

NextCodec == Encode \/ Decode

SpecCodec == InitCodec /\ [][NextCodec]_vars

(***************************************************************************)
(* Properties                                                              *)
(***************************************************************************)
\* The key indices the model can hold an entry at
SlotIndices == 0..MaxSlot

Occupied(self, st) == {i \in SlotIndices : SlotEntry(self, st, i) # None}

SlotFingerprint(self, st, i) == get_fingerprint(SlotEntry(self, st, i)[1])

\* The slots that hold a given public key
SlotsHolding(self, st, pk) == {i \in Occupied(self, st) : SlotEntry(self, st, i)[1] = pk}

ReturnedFrom(op) == pc = "returned" /\ ret.op = op

\* C1: no two occupied slots of a namespace hold public keys with the same
\* fingerprint, after any sequence of add and delete calls.
C1_NoDuplicateFingerprints ==
    \A self \in Keychains : \A i, j \in Occupied(self, store) :
        i # j => SlotFingerprint(self, store, i) # SlotFingerprint(self, store, j)

\* C2: add_private_key with a mnemonic and passphrase whose key an earlier
\* call stored writes nothing, leaves exactly one slot holding that key and
\* returns a key with the same fingerprint.
C2_AddIsIdempotent ==
    (/\ ReturnedFrom("add_private_key")
     /\ SlotsHolding(ret.self, before, get_g1(KeyOf(ret.args))) # {})
    => /\ store = before
       /\ Cardinality(SlotsHolding(ret.self, store, get_g1(KeyOf(ret.args)))) = 1
       /\ ret.result[1] = "ok"
       /\ \A i \in SlotsHolding(ret.self, store, get_g1(KeyOf(ret.args))) :
              get_fingerprint(get_g1(ret.result[2])) = SlotFingerprint(ret.self, store, i)

\* The fingerprints get_all_public_keys enumerates
EnumerableFingerprints(self, st) ==
    {get_fingerprint(pk) : pk \in Range(get_all_public_keys(self, st))}

\* The call added a key whose fingerprint was not enumerable
AddedNewKey ==
    /\ ReturnedFrom("add_private_key")
    /\ ret.result[1] = "ok"
    /\ get_fingerprint(get_g1(ret.result[2])) \notin EnumerableFingerprints(ret.self, before)

LowestEmpty(self, st) ==
    CHOOSE i \in 0..MaxSlot + 1 :
        /\ SlotEntry(self, st, i) = None
        /\ \A j \in 0..i - 1 : SlotEntry(self, st, j) # None

\* C3: add_private_key of a key whose fingerprint is not enumerable writes
\* exactly one slot, the lowest-index empty one, with the key's public key
\* and entropy, and leaves every other slot unchanged.
C3_AddWritesLowestFree ==
    AddedNewKey =>
        LET i == LowestEmpty(ret.self, before)
            name == <<_get_service(ret.self), _get_private_key_user(ret.self, i)>>
        IN  /\ DOMAIN store = DOMAIN before \cup {name}
            /\ name \notin DOMAIN before
            /\ \A k \in DOMAIN before : store[k] = before[k]
            /\ SlotEntry(ret.self, store, i)
                   = <<get_g1(ret.result[2]), bytes_from_mnemonic(ret.args[1])[2]>>

\* C3 witness: a new key was written into a freed slot below an occupied one
C3_Witness ==
    /\ AddedNewKey
    /\ \E i \in Occupied(ret.self, before) : LowestEmpty(ret.self, before) < i
    /\ LowestEmpty(ret.self, before) > 0

\* C4: every occupied slot has an index in 0..MAX_KEYS.
C4_SlotsWithinMaxKeys ==
    \A self \in Keychains : \A i \in Occupied(self, store) : i <= MAX_KEYS

\* C5: get_private_key_by_fingerprint returns None or a pair whose private
\* key's public key has the fingerprint asked for.
C5_ByFingerprintReturnsThatKey ==
    ReturnedFrom("get_private_key_by_fingerprint") =>
        \/ ret.result = <<"ok", None>>
        \/ /\ ret.result[1] = "ok"
           /\ get_fingerprint(get_g1(ret.result[2][1])) = ret.args[1]

\* The private keys of a get_all_private_keys result
ReturnedKeys == {ret.result[2][j][1] : j \in 1..Len(ret.result[2])}

\* The inputs of add_private_key whose key the keyring holds
StoredInputs(self, st) ==
    {input \in AddInputs : SlotsHolding(self, st, get_g1(KeyOf(input))) # {}}

\* C6: a key added under passphrase p is in get_all_private_keys(passphrases)
\* whenever p is in the list.
C6_FoundWithItsPassphrase ==
    (ReturnedFrom("get_all_private_keys") /\ ret.result[1] = "ok") =>
        \A input \in StoredInputs(ret.self, store) :
            input[2] \in Range(ret.args[1]) => KeyOf(input) \in ReturnedKeys

\* C6, the other half: a key added under p is returned by neither lookup
\* when p is not in the list.
C6_NotFoundWithoutItsPassphrase ==
    /\ (ReturnedFrom("get_all_private_keys") /\ ret.result[1] = "ok") =>
           \A input \in StoredInputs(ret.self, store) :
               input[2] \notin Range(ret.args[1]) => KeyOf(input) \notin ReturnedKeys
    /\ (ReturnedFrom("get_first_private_key") /\ ret.result[1] = "ok"
            /\ ret.result[2] # None) =>
           \A input \in StoredInputs(ret.self, store) :
               input[2] \notin Range(ret.args[1]) => KeyOf(input) # ret.result[2][1]

\* The slots of 0..MAX_KEYS whose public key has a fingerprint
Matching(self, st, fingerprint) ==
    {i \in Occupied(self, st) : i <= MAX_KEYS /\ SlotFingerprint(self, st, i) = fingerprint}

InDeleteAll == pc \in {"delete_all_1", "delete_all_between", "delete_all_2"}

DeleteAllDone ==
    /\ \A i \in 0..MAX_KEYS : SlotEntry(ret.self, store, i) = None
    /\ get_all_public_keys(ret.self, store) = <<>>

\* C8: delete_all_keys terminates, and when it returns every slot of
\* 0..MAX_KEYS is empty and get_all_public_keys returns the empty list,
\* whatever the occupancy before and whichever kind of keyring.
C8_DeleteAllTerminatesEmpty ==
    /\ [](ReturnedFrom("delete_all_keys") => DeleteAllDone)
    /\ (InDeleteAll ~> ReturnedFrom("delete_all_keys"))

\* C8 witness: delete_all_keys returned on a keyring that raises on an absent
\* entry and that held an empty slot below an occupied one
C8_Witness ==
    /\ ReturnedFrom("delete_all_keys")
    /\ raises
    /\ \E i, j \in 0..MAX_KEYS :
           i < j /\ SlotEntry(ret.self, before, i) = None /\ SlotEntry(ret.self, before, j) # None

\* C9: no call on one keychain changes a slot of a keychain with another
\* user or another testing mode.
C9_NamespacesIsolated ==
    pc = "returned" =>
        \A other \in NSKeychains \ {ret.self} : \A i \in SlotIndices :
            SlotEntry(other, store, i) = SlotEntry(other, before, i)

\* C10: a gated function runs only if no master passphrase is configured or
\* obtain_current_passphrase returned a passphrase (a validated cache entry,
\* a cache entry validated now, or a prompt the validator accepted); without
\* a master passphrase nothing is prompted; the wrapper returns func's value.
C10_GateInvokesOnlyUnlocked ==
    /\ gate.invoked =>
           \/ ~has_master_passphrase
           \/ /\ gate.obtained # NoneStr
              /\ master_passphrase_is_valid(gate.obtained)
              /\ gate.source \in {"validated cache", "cache validated now", "prompt"}
              /\ gate.source # "prompt" =>
                     gate.use_passphrase_cache /\ cache.validated
                         /\ cache.passphrase = gate.obtained
              /\ gate.source = "validated cache" => gate.prompts = 0
              /\ gate.source = "prompt" => gate.prompts \in 1..MAX_RETRIES
    /\ ~has_master_passphrase => gate.prompts = 0 /\ gate.pc \notin {"obtain", "prompt", "exited"}
    /\ gate.pc = "returned" => gate.invoked /\ gate.result = gate.value

\* C10 witness: the function ran after a rejected and then an accepted prompt,
\* and its value was returned
C10_Witness ==
    /\ gate.pc = "returned"
    /\ has_master_passphrase
    /\ gate.source = "prompt"
    /\ gate.prompts = 2
    /\ gate.result = 2

\* C11: one unlock attempt issues at most MAX_RETRIES prompts; when all are
\* rejected it ends with a failure (the wrapper leaves by SystemExit, which
\* goes to the caller) without invoking func; the prompt loop always ends.
C11_BoundedPromptsThenFailure ==
    /\ [](gate.prompts <= MAX_RETRIES)
    /\ [](gate.pc = "exited" => ~gate.invoked /\ gate.prompts = MAX_RETRIES)
    /\ [](gate.pc = "prompt" /\ gate.prompts = MAX_RETRIES => ENABLED GateExhausted)
    /\ (gate.pc = "prompt" ~> gate.pc \in {"invoke", "exited"})

\* C11 witness: three prompts were rejected and the attempt failed
C11_Witness ==
    /\ gate.pc = "exited"
    /\ gate.prompts = MAX_RETRIES
    /\ ~gate.invoked

\* C12: for every entropy e of 16, 20, 24, 28 or 32 bytes the encoding
\* succeeds with (8*len(e) + len(e)//4)/11 words (12, 15, 18, 21 or 24), all
\* of the word list, and decoding it gives e back; no assertion fails.
C12_CodecRoundTrip ==
    /\ pc = "encoded" =>
           LET e == ret.args[1]
               bits == 8 * Len(e) + Len(e) \div 4
           IN  /\ ret.result[1] = "ok"
               /\ bits % 11 = 0
               /\ Len(ret.result[2]) = bits \div 11
               /\ Len(ret.result[2]) = 12 + 3 * ((Len(e) - 16) \div 4)
               /\ \A i \in 1..Len(ret.result[2]) : InWordList(ret.result[2][i])
    /\ pc = "decoded" => ret.result = <<"ok", ret.args[1]>>

\* C12 witness: a 32-byte entropy that is not constant came back from its
\* 24 words
C12_Witness ==
    /\ pc = "decoded"
    /\ Len(ret.args[1]) = 32
    /\ Len(ret.args[2]) = 24
    /\ ret.args[1][1] # ret.args[1][2]
    /\ ret.result[1] = "ok"

\* C13: with the cache enabled, a cached passphrase not marked validated is
\* checked by the validator: a valid one is returned without a prompt and
\* marked validated, an invalid one is cleared before any prompt.  So when
\* the first prompt is about to be issued the cache holds no unvalidated
\* passphrase; and a call with the cache disabled leaves the cache as it was.
C13_UnvalidatedCacheIsChecked ==
    (gate.pc = "prompt" /\ gate.use_passphrase_cache /\ gate.prompts = 0) =>
        (cache.passphrase = NoneStr \/ cache.validated)

\* C14: with a master passphrase configured, once a prompt of a cache-using
\* call has been accepted, no later cache-using call prompts, as long as the
\* cache is not set again by hand.
C14_NoPromptAfterAccepted ==
    (has_master_passphrase /\ gate.accepted /\ gate.use_passphrase_cache) =>
        gate.pc # "prompt"

\* The key a side-by-side caller adds
CallKey(p) == key_gen(mnemonic_to_seed(calls.proc[p].mnemonic, calls.proc[p].passphrase))

\* Two callers with different keys, both returned after a write
BothWrote ==
    /\ \A p \in Callers : calls.proc[p].pc = "returned"
    /\ CallKey(1) # CallKey(2)
    /\ Len(calls.writes) = 2

\* C15: add_private_key is check-then-act.  When two calls for different keys
\* run side by side and both write, both return their key; if they chose the
\* same index, that slot holds the key of the later writer and the other key
\* is in no slot; if they chose different indices both keys are stored.
C15_AddIsCheckThenAct ==
    BothWrote =>
        /\ \A p \in Callers : calls.proc[p].result = <<"ok", CallKey(p)>>
        /\ LET last == calls.writes[2]
               first == calls.writes[1]
           IN  IF calls.proc[1].index = calls.proc[2].index
               THEN /\ SlotEntry(MainKeychain, store, calls.proc[last].index)[1]
                           = get_g1(CallKey(last))
                    /\ SlotsHolding(MainKeychain, store, get_g1(CallKey(first))) = {}
               ELSE \A p \in Callers :
                        SlotsHolding(MainKeychain, store, get_g1(CallKey(p)))
                            = {calls.proc[p].index}

\* C15 witness: both callers chose the same index and returned their key,
\* and only one of the two keys is stored
C15_Witness ==
    /\ BothWrote
    /\ calls.proc[1].index = calls.proc[2].index
    /\ \A p \in Callers : calls.proc[p].result = <<"ok", CallKey(p)>>
    /\ Cardinality({p \in Callers :
                       SlotsHolding(MainKeychain, store, get_g1(CallKey(p))) # {}}) = 1

\* C16: a public operation makes at most MAX_KEYS+1 keyring round trips
\* before it returns (here: get_all_public_keys, get_first_public_key and
\* add_private_key, on every keyring reached).
C16_RoundTripsBounded ==
    (pc = "returned"
        /\ ret.op \in {"get_all_public_keys", "get_first_public_key", "add_private_key"}) =>
        RoundTrips(ret.op, ret.self, before, ret.args) <= MAX_KEYS + 1

\* The occupied slots of 0..MAX_KEYS, and the k-th of them in ascending order
OccupiedInRange(self, st) == {i \in Occupied(self, st) : i <= MAX_KEYS}
KthOccupied(self, st, k) ==
    CHOOSE i \in OccupiedInRange(self, st) :
        Cardinality({j \in OccupiedInRange(self, st) : j < i}) = k - 1

\* C17: get_all_public_keys returns the stored public keys of exactly the
\* occupied slots of 0..MAX_KEYS, in ascending slot order, also when lower
\* slots are empty; get_first_public_key returns the first of them, or None
\* when there is none.
C17_PublicKeysInSlotOrder ==
    /\ ReturnedFrom("get_all_public_keys") =>
           /\ ret.result[1] = "ok"
           /\ Len(ret.result[2]) = Cardinality(OccupiedInRange(ret.self, store))
           /\ \A k \in 1..Len(ret.result[2]) :
                  ret.result[2][k] = SlotEntry(ret.self, store, KthOccupied(ret.self, store, k))[1]
    /\ ReturnedFrom("get_first_public_key") =>
           /\ ret.result[1] = "ok"
           /\ ret.result[2] = IF OccupiedInRange(ret.self, store) = {} THEN None
                              ELSE SlotEntry(ret.self, store, KthOccupied(ret.self, store, 1))[1]

\* C17 witness: two public keys were returned from a keyring whose slot 0 is
\* empty
C17_Witness ==
    /\ ReturnedFrom("get_all_public_keys")
    /\ SlotEntry(ret.self, store, 0) = None
    /\ Len(ret.result[2]) = 2

\* C18: get_first_private_key(passphrases) returns the first element of
\* get_all_private_keys(passphrases), and None, without raising, exactly when
\* that list is empty.
C18_FirstIsHeadOfAll ==
    ReturnedFrom("get_first_private_key") =>
        LET all == get_all_private_keys(ret.self, store, ret.args[1])
        IN  /\ ret.result[1] = "ok"
            /\ all[1] = "ok"
            /\ ret.result[2] = IF all[2] = <<>> THEN None ELSE all[2][1]

\* C18 witness: the first key is not in slot 0, and more than one key is
\* accessible
C18_Witness ==
    /\ ReturnedFrom("get_first_private_key")
    /\ ret.result[2] # None
    /\ get_g1(ret.result[2][1]) # SlotEntry(ret.self, store, 0)[1]
    /\ SlotEntry(ret.self, store, 0) # None
    /\ Len(get_all_private_keys(ret.self, store, ret.args[1])[2]) >= 2

\* C19: get_all_private_keys returns at most one entry per occupied slot of
\* 0..MAX_KEYS, whatever the passphrase list, and the key of each entry
\* reproduces a stored public key.
C19_OneEntryPerSlot ==
    (ReturnedFrom("get_all_private_keys") /\ ret.result[1] = "ok") =>
        /\ Len(ret.result[2]) <= Cardinality(OccupiedInRange(ret.self, store))
        /\ \A k \in 1..Len(ret.result[2]) :
               \E i \in OccupiedInRange(ret.self, store) :
                   SlotEntry(ret.self, store, i) = <<get_g1(ret.result[2][k][1]), ret.result[2][k][2]>>

\* The error the codec has for a mnemonic: its length, its first word that
\* is outside the vocabulary, or its checksum
LENGTH_ERROR == <<"raise", "ValueError: Invalid mnemonic length">>
CHECKSUM_ERROR == <<"raise", "ValueError: Invalid order of mnemonic words">>
WordError(word) == <<"raise", "ValueError: not in the mnemonic dictionary", word>>

\* C20: add_private_key with a mnemonic the codec rejects (a word count not
\* in {12, 15, 18, 21, 24}, a word outside the vocabulary, a checksum
\* mismatch) fails with that error and writes nothing: the keyring is as
\* before the call.
C20_RejectedMnemonicWritesNothing ==
    ReturnedFrom("add_private_key") =>
        /\ ret.args[1] \in {ShortMnemonic, LongMnemonic} => ret.result = LENGTH_ERROR
        /\ ret.args[1] = TypoMnemonic => ret.result = WordError(TYPO_WORD)
        /\ ret.args[1] \in {SwappedMnemonic, OtherLastWordMnemonic} =>
               ret.result = CHECKSUM_ERROR
        /\ ret.args[1] \in BadMnemonics => store = before
        /\ ret.result[1] = "raise" => store = before /\ ret.args[1] \in BadMnemonics

\* C20 witness: a mnemonic with a wrong checksum was rejected on a keyring
\* that holds keys
C20_Witness ==
    /\ ReturnedFrom("add_private_key")
    /\ ret.args[1] = SwappedMnemonic
    /\ ret.result = CHECKSUM_ERROR
    /\ Occupied(ret.self, store) # {}
    /\ store = before

=============================================================================
